---- MODULE Spec2Model ----
(***************************************************************************)
(* Cursor-paginated breadth-first traversal of a knowledge graph:          *)
(* the BFS engine (tools/engine_bfs.py), the token budget                  *)
(* (tools/token_budget.py), the flat formatter (tools/format_flat.py),     *)
(* the session store (tools/session_store.py) and the pagination wrapper   *)
(* (tools/traverse_wrapper.py).                                            *)
(*                                                                         *)
(* Node UUIDs, edge UUIDs and relation types are naturals; their numeric   *)
(* order stands for the string order Python's tuple comparison uses.       *)
(***************************************************************************)
EXTENDS Integers, Sequences, FiniteSets, TLC

\* ---------------------------------------------------------------- bounds
MaxNodes == 3
MaxEdges == 2
MaxDepthReq == 2
MaxOrderEdges == 3

Nodes == 1..MaxNodes
EdgeTypes == {1}
Depths == 0..MaxDepthReq

\* ------------------------------------------------------ program constants
MAX_RESPONSE_TOKENS == 20000
\* len(json.dumps({"nodes": {}, "edges": []}))
BaseLen == 26
\* len('"start": "1", ')
StartLen == 14
\* len('"1": ' + json.dumps(format_node_flat(node)))
NodeLen == 149
\* len('"1": ' + json.dumps({"uuid": "1", "error": "Node not found"}))
ErrNodeLen == 45
\* len(json.dumps(format_edge_flat(edge, depth, order, edge_id)))
EdgeLen == 193
\* len(", "), the item separator of json.dumps
SepLen == 2
\* the session id the wrapper draws with uuid4()
Sid == 1

Limits == {60, 100, 130, MAX_RESPONSE_TOKENS}

VARIABLES
  dbEdges,      \* the store: edge records in the physical order of the store
  dbMissing,    \* node UUIDs for which get_node_by_uuid returns None
  dbFailing,    \* node UUIDs for which EntityEdge.get_by_node_uuid raises
  budgetLimit,  \* TokenBudget.limit of the budget handed to advance_bfs
  sess,         \* the TraverseSession object of the session
  sessions,     \* SessionStore._sessions: the session ids that are stored
  call,         \* the locals of the running traverse call
  cursor,       \* the cursor of the last response
  emitted,      \* history: every edge record emitted, in page order
  seenNodes,    \* history: union of the `nodes` keys of all pages
  resume,       \* history: head frame of the frontier at the last return
  ordIn1, ordIn2, ordOut1, ordOut2,  \* inputs and outputs of the orderer
  now,          \* time.time(), in seconds
  heap,         \* the TraverseSession objects, by the session id they were made for
  storedIds,    \* the keys of SessionStore._sessions
  tokens,       \* the cursor tokens issued so far
  calls,        \* the locals of each concurrent traverse call
  active,       \* the call that runs on the event loop; 0 when all are suspended
  pages,        \* history: the pages returned for each session id; emptied
                \* and no longer followed once two calls overlap on the id
  tainted,      \* history: session ids with an aborted or an overlapping call
  mismatched    \* history: session ids that answered QUERY_MISMATCH

vars == <<dbEdges, dbMissing, dbFailing, budgetLimit, sess, sessions, call, cursor,
          emitted, seenNodes, resume, ordIn1, ordIn2, ordOut1, ordOut2,
          now, heap, storedIds, tokens, calls, active, pages, tainted, mismatched>>

travVars == <<dbEdges, dbMissing, dbFailing, budgetLimit, sess, sessions, call, cursor,
              emitted, seenNodes, resume>>
ordVars == <<ordIn1, ordIn2, ordOut1, ordOut2>>
protoVars == <<now, heap, storedIds, tokens, calls, active, pages, tainted, mismatched>>

Max(a, b) == IF a >= b THEN a ELSE b

\* ------------------------------------------------------------ edge orderer
\* getattr(e, "target_node_uuid", None) or getattr(e, "source_node_uuid", None)
NoUuid == 0
TargetOrSource(e) == IF e.tgt # NoUuid THEN e.tgt ELSE e.src

\* EDGE_ORDER["uuid"]: the sort key (name, target or source)
EdgeKey(e) == <<e.name, TargetOrSource(e)>>

\* Python's lexicographic tuple comparison  k1 <= k2
KeyLE(k1, k2) == k1[1] < k2[1] \/ (k1[1] = k2[1] /\ k1[2] <= k2[2])

\* insert e behind every element whose key is <= key(e): a stable insertion
RECURSIVE InsertStable(_, _)
InsertStable(e, s) ==
  IF s = <<>> THEN <<e>>
  ELSE IF KeyLE(EdgeKey(Head(s)), EdgeKey(e))
       THEN <<Head(s)>> \o InsertStable(e, Tail(s))
       ELSE <<e>> \o s

\* sorted(edges, key=key_fn): stable, ties keep the order of the input
RECURSIVE SortedEdges(_)
SortedEdges(s) ==
  IF s = <<>> THEN <<>>
  ELSE InsertStable(s[Len(s)], SortedEdges(SubSeq(s, 1, Len(s) - 1)))

\* -------------------------------------------------------------- the store
\* EntityEdge.get_by_node_uuid: the edges incident to n, in store order
Incident(n) == SelectSeq(dbEdges, LAMBDA e : e.src = n \/ e.tgt = n)

\* get_node_by_uuid(...) is None
NodeIsNone(n) == n \in dbMissing

\* variant of FetchedEdges in which the store's error is not turned into an
\* empty list
FetchedEdgesAnyway(n) == Incident(n)

\* the edges the engine works with for node n: the store's answer, or []
\* when EntityEdge.get_by_node_uuid raised (lines 91-95)
FetchedEdges(n) == IF n \in dbFailing THEN <<>> ELSE Incident(n)

\* ----------------------------------------------------------- token budget
NodeEntryLen(n) == IF NodeIsNone(n) THEN ErrNodeLen ELSE NodeLen

RECURSIVE SumNodeLen(_)
SumNodeLen(S) ==
  IF S = {} THEN 0
  ELSE LET n == CHOOSE x \in S : TRUE
       IN NodeEntryLen(n) + SumNodeLen(S \ {n})

Joined(total, k) == IF k = 0 THEN 0 ELSE total + SepLen * (k - 1)

\* len(json.dumps(obj)) of a result with the given node keys and edge count
JsonLen(hasStart, nodeKeys, nEdges) ==
  BaseLen + (IF hasStart THEN StartLen ELSE 0)
  + Joined(SumNodeLen(nodeKeys), Cardinality(nodeKeys))
  + Joined(EdgeLen * nEdges, nEdges)

\* estimate_tokens (the fallback estimator): max(1, len(json_str) // 4)
EstimateTokens(hasStart, nodeKeys, nEdges) ==
  Max(1, JsonLen(hasStart, nodeKeys, nEdges) \div 4)

\* variant of CanAddEdge that charges the edges of the earlier pages to the
\* budget of the current page
CanAddEdgeCumulative(c, lim) ==
  EstimateTokens(TRUE, c.nodes, Len(emitted) + Len(c.edges) + 1) <= lim

\* TokenBudget.can_add_edge(result, edge)
CanAddEdge(c, lim) ==
  EstimateTokens(TRUE, c.nodes, Len(c.edges) + 1) <= lim

\* estimate_tokens(temp_result) <= budget.limit; temp_result has the keys
\* "nodes" and "edges" only
TempResultFits(c, target, lim) ==
  EstimateTokens(FALSE, c.nodes \cup {target}, Len(c.edges) + 1) <= lim

\* the condition of engine_bfs.py line 144
NewEdgeFits(c, target, lim) ==
  CanAddEdge(c, lim) /\ TempResultFits(c, target, lim)

\* ------------------------------------------------------------- formatting
Frame(n, d, k) == [node_uuid |-> n, depth_remaining |-> d, next_edge_index |-> k]

OtherEnd(e, n) == IF e.src = n THEN e.tgt ELSE e.src

\* current_depth = sess.max_depth - frame.depth_remaining + 1
CurrentDepth(s, f) == s.max_depth - f.depth_remaining + 1

\* format_edge_flat with id "E:<source>:<target>:<yielded_edges>";
\* uuid and focus are history fields, not part of the wire record
EdgeObj(e, s, f) ==
  [id |-> <<e.src, e.tgt, s.yielded_edges>>,
   type |-> e.name, source |-> e.src, target |-> e.tgt,
   depth |-> CurrentDepth(s, f), order |-> s.yielded_edges,
   uuid |-> e.uuid, focus |-> f.node_uuid]

\* the wire view of an edge record
EdgeView(e) == <<e.source, e.target, e.type, e.depth, e.order>>
Views(es) == [k \in 1..Len(es) |-> EdgeView(es[k])]

\* --------------------------------------------------------------- sessions
NoFrame == Frame(0, 0, 0)
NoSession == [root_uuid |-> 0, max_depth |-> 0, query_hash |-> <<0, 0>>,
              frontier |-> <<>>, visited |-> <<>>, yielded_edges |-> 0]

\* TraverseSession(...) as built by the wrapper for an initial request
NewSession(root, depth) ==
  [root_uuid |-> root, max_depth |-> depth, query_hash |-> <<root, depth>>,
   frontier |-> <<>>, visited |-> <<>>, yielded_edges |-> 0]

IdleCall == [pc |-> "idle", continuation |-> FALSE, nodes |-> {}, edges |-> <<>>,
             frame |-> NoFrame, edges_sorted |-> <<>>, i |-> 0,
             has_more |-> FALSE, est |-> 0]

NoCursor == [has_more |-> FALSE, responded |-> FALSE, sid |-> 0, qh |-> <<0, 0>>]

InSeq(x, s) == \E k \in 1..Len(s) : s[k] = x

\* variants of Expands with the depth test off by one
ExpandsShallow(f) == f.depth_remaining > 2
ExpandsDeep(f) == f.depth_remaining > 0

\* frame.depth_remaining > 1: the target gets a frame of its own
Expands(f) == f.depth_remaining > 1

\* ------------------------------------------ concurrent calls and cursors
\* bounds of the protocol model
MaxTicks == 7
MaxSeqTicks == 2
MaxTokens == 2

\* ttl_seconds=600 of the wrapper's issue_token call
CURSOR_TTL == 600
\* expires_at=time.time() + 3600
SESSION_TTL == 3600
\* depth < 0 or depth > 5
MAX_DEPTH == 5
\* depth: int = 1, the default of the wrapper's signature
DefaultDepth == 1

\* the clock is read in whole seconds and moves in steps of one cursor TTL
TickSeconds == CURSOR_TTL

\* two calls can be in flight at once, on up to two sessions
Procs == {1, 2}
SessionIds == {1, 2}

\* f"{start_node_uuid}:{depth}"
QueryHash(root, depth) == <<root, depth>>

\* hmac.new(SECRET_KEY, payload_b64, sha256).digest(): one digest per payload
Hmac(payload) == [over |-> payload]
NoPayload == [sid |-> 0, qh |-> <<0, 0>>, exp |-> 0]

\* variant of IssueTokenAt that takes the lifetime for the expiry time
IssueTokenNoClock(sid, qh, ttl, t) ==
  LET payload == [sid |-> sid, qh |-> qh, exp |-> ttl]
  IN [parts |-> 2, payload |-> payload,
      sig |-> [mac |-> Hmac(payload), junk |-> FALSE]]

\* SessionStore.issue_token(session_id, query_hash, ttl_seconds) at time t:
\* "<payload_b64>.<signature_b64>"; junk marks characters outside the
\* base64 alphabet in the signature text
IssueTokenAt(sid, qh, ttl, t) ==
  LET payload == [sid |-> sid, qh |-> qh, exp |-> t + ttl]
  IN [parts |-> 2, payload |-> payload,
      sig |-> [mac |-> Hmac(payload), junk |-> FALSE]]

\* base64.urlsafe_b64decode(signature_b64_padded): characters outside the
\* alphabet are discarded
DecodeSignature(sig) == sig.mac

\* variant of VerifyToken that checks the expiry before the signature
VerifyTokenExpFirst(tok, t) ==
  IF tok.parts # 2 THEN "INVALID_CURSOR"
  ELSE IF tok.payload.exp < t THEN "CURSOR_EXPIRED"
  ELSE IF DecodeSignature(tok.sig) # Hmac(tok.payload) THEN "INVALID_CURSOR"
  ELSE "ok"

\* SessionStore.verify_token(token) at time t, as the wrapper maps its
\* exceptions (wrapper lines 73-78)
VerifyToken(tok, t) ==
  IF tok.parts # 2 THEN "INVALID_CURSOR"
  ELSE IF DecodeSignature(tok.sig) # Hmac(tok.payload) THEN "INVALID_CURSOR"
  ELSE IF tok.payload.exp < t THEN "CURSOR_EXPIRED"
  ELSE "ok"

NoToken == [parts |-> 0, payload |-> NoPayload,
            sig |-> [mac |-> Hmac(NoPayload), junk |-> FALSE]]

\* TraverseSession(...) of wrapper lines 100-111, made at time t
NewSessionAt(root, depth, t) ==
  [root_uuid |-> root, max_depth |-> depth, query_hash |-> QueryHash(root, depth),
   strategy |-> "bfs", edge_ordering |-> "uuid",
   frontier |-> <<>>, visited |-> <<>>, yielded_edges |-> 0,
   expires_at |-> t + SESSION_TTL]

NoSessionAt == NewSessionAt(0, 0, 0)

\* the locals of a traverse call that is not running; outcome and raised
\* tell how the last call in the slot ended: by `return` or by `raise`
IdleProc ==
  [pc |-> "idle", outcome |-> "none", sid |-> 0, continuation |-> FALSE,
   tok |-> NoToken, args |-> <<0, 0>>, nodes |-> {}, edges |-> <<>>,
   frame |-> NoFrame, edges_sorted |-> <<>>, i |-> 0, order |-> 0,
   has_more |-> FALSE, snap |-> NoSessionAt, retry |-> FALSE,
   raised |-> FALSE]

\* no request has been made yet
ProtoIdle ==
  /\ now = 0
  /\ heap = [sid \in SessionIds |-> NoSessionAt]
  /\ storedIds = {}
  /\ tokens = {}
  /\ calls = [p \in Procs |-> IdleProc]
  /\ active = 0
  /\ pages = [sid \in SessionIds |-> <<>>]
  /\ tainted = {}
  /\ mismatched = {}

\* ------------------------------------------------------------------- Init
EdgeShapes == [src : Nodes, tgt : Nodes, name : EdgeTypes]

Stores ==
  UNION { { [k \in 1..n |-> [uuid |-> k, src |-> f[k].src, tgt |-> f[k].tgt,
                             name |-> f[k].name]] : f \in [1..n -> EdgeShapes] }
          : n \in 0..MaxEdges }

Init ==
  /\ dbEdges \in Stores
  /\ dbMissing \in {{}, {MaxNodes}}
  /\ dbFailing = {}
  /\ budgetLimit \in Limits
  /\ sess = NoSession
  /\ sessions = {}
  /\ call = IdleCall
  /\ cursor = NoCursor
  /\ emitted = <<>>
  /\ seenNodes = {}
  /\ resume = NoFrame
  /\ ordIn1 = <<>> /\ ordIn2 = <<>> /\ ordOut1 = <<>> /\ ordOut2 = <<>>
  /\ ProtoIdle

\* ---------------------------------------------------------------- actions
\* traverse_knowledge_graph_paginated without cursor, up to the main loop of
\* advance_bfs (wrapper lines 91-121, engine lines 58-84)
TraverseInitial(root, depth) ==
  /\ call.pc = "idle"
  /\ ~cursor.responded
  /\ sess' = [NewSession(root, depth) EXCEPT
                !.visited = <<root>>,
                !.frontier = IF depth > 0 THEN <<Frame(root, depth, 0)>> ELSE <<>>]
  /\ call' = [IdleCall EXCEPT
                !.pc = IF depth = 0 THEN "respond" ELSE "loop",
                !.nodes = {root},
                !.est = IF depth = 0 THEN EstimateTokens(TRUE, {root}, 0) ELSE 0]
  /\ UNCHANGED <<dbEdges, dbMissing, dbFailing, budgetLimit, sessions, cursor, emitted,
                 seenNodes, resume, ordVars, protoVars>>

\* traverse_knowledge_graph_paginated with the cursor of the last response
\* (wrapper lines 72-88 and 114-121, engine lines 58-69)
TraverseContinue ==
  /\ call.pc = "idle"
  /\ cursor.responded /\ cursor.has_more
  /\ cursor.sid \in sessions
  /\ cursor.qh = sess.query_hash
  /\ call' = [IdleCall EXCEPT !.pc = "loop", !.continuation = TRUE]
  /\ UNCHANGED <<dbEdges, dbMissing, dbFailing, budgetLimit, sess, sessions, cursor,
                 emitted, seenNodes, resume, ordVars, protoVars>>

\* while sess.frontier: false -> return result, False, est  (lines 87, 179-181)
FrontierEmpty ==
  /\ call.pc = "loop"
  /\ sess.frontier = <<>>
  /\ call' = [call EXCEPT !.pc = "respond", !.has_more = FALSE,
                          !.est = EstimateTokens(TRUE, call.nodes, Len(call.edges))]
  /\ UNCHANGED <<dbEdges, dbMissing, dbFailing, budgetLimit, sess, sessions, cursor,
                 emitted, seenNodes, resume, ordVars, protoVars>>

\* frame = sess.frontier.pop(0); fetch and sort its edges (lines 88-105)
PopFrame ==
  /\ call.pc = "loop"
  /\ sess.frontier # <<>>
  /\ LET f == Head(sess.frontier)
         es == FetchedEdges(f.node_uuid)
     IN /\ sess' = [sess EXCEPT !.frontier = Tail(sess.frontier)]
        /\ call' = IF es = <<>>
                   THEN call
                   ELSE [call EXCEPT !.pc = "edge", !.frame = f,
                                     !.edges_sorted = SortedEdges(es),
                                     !.i = f.next_edge_index]
  /\ UNCHANGED <<dbEdges, dbMissing, dbFailing, budgetLimit, sessions, cursor, emitted,
                 seenNodes, resume, ordVars, protoVars>>

\* variant of FrameDone that reports completion as soon as one frame is done
FrameDoneReturns ==
  /\ call.pc = "edge"
  /\ call.i >= Len(call.edges_sorted)
  /\ call' = [call EXCEPT !.pc = "respond", !.has_more = FALSE,
                          !.est = EstimateTokens(TRUE, call.nodes, Len(call.edges))]
  /\ UNCHANGED <<dbEdges, dbMissing, dbFailing, budgetLimit, sess, sessions, cursor,
                 emitted, seenNodes, resume, ordVars, protoVars>>

\* while i < len(edges_sorted): false -> the frame is discarded (lines 106, 176)
FrameDone ==
  /\ call.pc = "edge"
  /\ call.i >= Len(call.edges_sorted)
  /\ call' = [call EXCEPT !.pc = "loop", !.frame = NoFrame,
                          !.edges_sorted = <<>>, !.i = 0]
  /\ UNCHANGED <<dbEdges, dbMissing, dbFailing, budgetLimit, sess, sessions, cursor,
                 emitted, seenNodes, resume, ordVars, protoVars>>

\* variant of Enqueue that stops expanding one level early
EnqueueShallow(frontier, f, target) ==
  IF f.depth_remaining > 2
  THEN Append(frontier, Frame(target, f.depth_remaining - 1, 0))
  ELSE frontier

\* the frontier after edge `target` of frame f was committed (lines 152-155)
Enqueue(frontier, f, target) ==
  IF Expands(f)
  THEN Append(frontier, Frame(target, f.depth_remaining - 1, 0))
  ELSE frontier

\* variant of CommitNewSess that forgets to mark the target visited
CommitNewSessNoVisit(s, f, target) ==
  [s EXCEPT !.yielded_edges = s.yielded_edges + 1,
            !.frontier = Enqueue(s.frontier, f, target)]

\* the session after the edge to a new target was committed (lines 148-155)
CommitNewSess(s, f, target) ==
  [s EXCEPT !.yielded_edges = s.yielded_edges + 1,
            !.visited = Append(s.visited, target),
            !.frontier = Enqueue(s.frontier, f, target)]

\* variant of CommitVisitedSess that forgets to count the edge
CommitVisitedSessNoCount(s) == s

\* the session after the edge to a visited target was committed (line 167)
CommitVisitedSess(s) ==
  [s EXCEPT !.yielded_edges = s.yielded_edges + 1]

\* variants of CutSess: resume one edge too late, count the rejected edge,
\* reinsert the frame at the back, restart the frame from its first edge
CutSessSkip(s, f, k) ==
  [s EXCEPT !.frontier = <<[node_uuid |-> f.node_uuid,
                            depth_remaining |-> f.depth_remaining,
                            next_edge_index |-> k + 1]>> \o s.frontier]
CutSessCount(s, f, k) ==
  [s EXCEPT !.frontier = <<[node_uuid |-> f.node_uuid,
                            depth_remaining |-> f.depth_remaining,
                            next_edge_index |-> k]>> \o s.frontier,
            !.yielded_edges = s.yielded_edges + 1]
CutSessBack(s, f, k) ==
  [s EXCEPT !.frontier = Append(s.frontier,
                                [node_uuid |-> f.node_uuid,
                                 depth_remaining |-> f.depth_remaining,
                                 next_edge_index |-> k])]
CutSessRestart(s, f, k) ==
  [s EXCEPT !.frontier = <<[node_uuid |-> f.node_uuid,
                            depth_remaining |-> f.depth_remaining,
                            next_edge_index |-> 0]>> \o s.frontier]

\* the session after a budget rejection (lines 159-160 and 171-172)
CutSess(s, f, k) ==
  [s EXCEPT !.frontier = <<Frame(f.node_uuid, f.depth_remaining, k)>> \o s.frontier]

\* variant of EmitNew that looks for the target in the nodes of the page
\* under construction instead of sess.visited
EmitNewPageCheck ==
  /\ call.pc = "edge"
  /\ call.i < Len(call.edges_sorted)
  /\ LET e == call.edges_sorted[call.i + 1]
         target == OtherEnd(e, call.frame.node_uuid)
     IN /\ target \notin call.nodes
        /\ NewEdgeFits(call, target, budgetLimit)
        /\ call' = [call EXCEPT !.nodes = call.nodes \cup {target},
                                !.edges = Append(call.edges, EdgeObj(e, sess, call.frame)),
                                !.i = call.i + 1]
        /\ sess' = CommitNewSess(sess, call.frame, target)
  /\ UNCHANGED <<dbEdges, dbMissing, dbFailing, budgetLimit, sessions, cursor, emitted,
                 seenNodes, resume, ordVars, protoVars>>

\* target not visited and within budget: commit node and edge (lines 130-156)
EmitNew ==
  /\ call.pc = "edge"
  /\ call.i < Len(call.edges_sorted)
  /\ LET e == call.edges_sorted[call.i + 1]
         target == OtherEnd(e, call.frame.node_uuid)
     IN /\ ~InSeq(target, sess.visited)
        /\ NewEdgeFits(call, target, budgetLimit)
        /\ call' = [call EXCEPT !.nodes = call.nodes \cup {target},
                                !.edges = Append(call.edges, EdgeObj(e, sess, call.frame)),
                                !.i = call.i + 1]
        /\ sess' = CommitNewSess(sess, call.frame, target)
  /\ UNCHANGED <<dbEdges, dbMissing, dbFailing, budgetLimit, sessions, cursor, emitted,
                 seenNodes, resume, ordVars, protoVars>>

\* target already visited and within budget: commit the edge (lines 163-168)
EmitVisited ==
  /\ call.pc = "edge"
  /\ call.i < Len(call.edges_sorted)
  /\ LET e == call.edges_sorted[call.i + 1]
         target == OtherEnd(e, call.frame.node_uuid)
     IN /\ InSeq(target, sess.visited)
        /\ CanAddEdge(call, budgetLimit)
        /\ call' = [call EXCEPT !.edges = Append(call.edges, EdgeObj(e, sess, call.frame)),
                                !.i = call.i + 1]
        /\ sess' = CommitVisitedSess(sess)
  /\ UNCHANGED <<dbEdges, dbMissing, dbFailing, budgetLimit, sessions, cursor, emitted,
                 seenNodes, resume, ordVars, protoVars>>

\* budget exceeded: save position and return (lines 157-162 and 169-174)
BudgetCut ==
  /\ call.pc = "edge"
  /\ call.i < Len(call.edges_sorted)
  /\ LET e == call.edges_sorted[call.i + 1]
         target == OtherEnd(e, call.frame.node_uuid)
     IN IF InSeq(target, sess.visited)
        THEN ~CanAddEdge(call, budgetLimit)
        ELSE ~NewEdgeFits(call, target, budgetLimit)
  /\ sess' = CutSess(sess, call.frame, call.i)
  /\ call' = [call EXCEPT !.pc = "respond", !.has_more = TRUE,
                          !.est = EstimateTokens(TRUE, call.nodes, Len(call.edges))]
  /\ UNCHANGED <<dbEdges, dbMissing, dbFailing, budgetLimit, sessions, cursor, emitted,
                 seenNodes, resume, ordVars, protoVars>>

\* variant of StoreAfter that saves the session after every page
StoreAfterAlways(has_more, continuation, stored) == stored \cup {Sid}

\* SessionStore._sessions after the response was assembled (lines 132-156)
StoreAfter(has_more, continuation, stored) ==
  IF has_more THEN stored \cup {Sid}
  ELSE IF continuation THEN stored \ {Sid} ELSE stored

\* response assembly of the wrapper (lines 123-158)
Respond ==
  /\ call.pc = "respond"
  /\ sessions' = StoreAfter(call.has_more, call.continuation, sessions)
  /\ cursor' = IF call.has_more
               THEN [has_more |-> TRUE, responded |-> TRUE, sid |-> Sid,
                     qh |-> sess.query_hash]
               ELSE [NoCursor EXCEPT !.responded = TRUE]
  /\ emitted' = emitted \o call.edges
  /\ seenNodes' = seenNodes \cup call.nodes
  /\ resume' = IF call.has_more THEN Head(sess.frontier) ELSE NoFrame
  /\ call' = [call EXCEPT !.pc = "idle"]
  /\ UNCHANGED <<dbEdges, dbMissing, dbFailing, budgetLimit, sess, ordVars, protoVars>>

Next ==
  \/ \E root \in Nodes, depth \in Depths : TraverseInitial(root, depth)
  \/ TraverseContinue
  \/ FrontierEmpty
  \/ PopFrame
  \/ FrameDone
  \/ EmitNew
  \/ EmitVisited
  \/ BudgetCut
  \/ Respond

Spec == Init /\ [][Next]_vars

\* the client keeps asking and the engine keeps running: every enabled step
\* of a request is eventually taken
LiveSpec == Init /\ [][Next]_vars /\ WF_vars(Next)

\* ------------------------------------------------- the orderer on its own
OrderNodes == 1..3
OrderTypes == 1..2
OrderFocus == 1

\* edges incident to the focus node
OrderShapes ==
  { sh \in [src : OrderNodes, tgt : OrderNodes, name : OrderTypes] :
      sh.src = OrderFocus \/ sh.tgt = OrderFocus }

OrderLists ==
  UNION { { [k \in 1..n |-> [uuid |-> k, src |-> f[k].src, tgt |-> f[k].tgt,
                             name |-> f[k].name]] : f \in [1..n -> OrderShapes] }
          : n \in 1..MaxOrderEdges }

Injective(p) == \A a, b \in DOMAIN p : p[a] = p[b] => a = b

\* the same edges in another physical order
Reorderings(s) ==
  { [k \in 1..Len(s) |-> s[p[k]]] :
      p \in { q \in [1..Len(s) -> 1..Len(s)] : Injective(q) } }

InitOrder ==
  /\ ordIn1 \in OrderLists
  /\ ordIn2 \in Reorderings(ordIn1)
  /\ ordOut1 = <<>> /\ ordOut2 = <<>>
  /\ dbEdges = <<>> /\ dbMissing = {} /\ dbFailing = {}
  /\ budgetLimit = MAX_RESPONSE_TOKENS
  /\ sess = NoSession /\ sessions = {} /\ call = IdleCall /\ cursor = NoCursor
  /\ emitted = <<>> /\ seenNodes = {} /\ resume = NoFrame
  /\ ProtoIdle

\* edges_sorted = sorted(edges, key=key_fn) on two listings of the same edges
SortListings ==
  /\ ordOut1 = <<>>
  /\ ordOut1' = SortedEdges(ordIn1)
  /\ ordOut2' = SortedEdges(ordIn2)
  /\ UNCHANGED <<ordIn1, ordIn2, travVars, protoVars>>

NextOrder == SortListings

SpecOrder == InitOrder /\ [][NextOrder]_vars

\* ------------------------------------------- one advance, never cut short
\* advance_bfs when no budget check rejects: the main loop run to the end,
\* returning the edge records of the page
RECURSIVE RunFrames(_, _)
RECURSIVE RunEdges(_, _, _, _, _)
RunFrames(s, out) ==
  IF s.frontier = <<>> THEN out
  ELSE LET f == Head(s.frontier)
       IN RunEdges([s EXCEPT !.frontier = Tail(s.frontier)], f,
                   SortedEdges(FetchedEdges(f.node_uuid)), f.next_edge_index, out)
RunEdges(s, f, es, k, out) ==
  IF k >= Len(es) THEN RunFrames(s, out)
  ELSE LET e == es[k + 1]
           target == OtherEnd(e, f.node_uuid)
       IN IF ~InSeq(target, s.visited)
          THEN RunEdges(CommitNewSess(s, f, target), f, es, k + 1,
                        Append(out, EdgeObj(e, s, f)))
          ELSE RunEdges(CommitVisitedSess(s), f, es, k + 1,
                        Append(out, EdgeObj(e, s, f)))

\* the edge list of a single advance of a fresh session, unlimited budget
AdvanceUnlimited(root, depth) ==
  IF depth = 0 THEN <<>>
  ELSE RunFrames([NewSession(root, depth) EXCEPT
                    !.visited = <<root>>,
                    !.frontier = <<Frame(root, depth, 0)>>], <<>>)

\* ----------------------------------- the wrapper under concurrent calls
\* Each call runs on one event loop: it holds the loop (active) from one
\* suspension point to the next.  The awaits that suspend are the store
\* calls of advance_bfs (lines 71, 92 and 131); the SessionStore coroutines
\* never suspend.
ProtoRoots == {NoUuid, 1}
ProtoDepths == {-1, 0, MAX_DEPTH, MAX_DEPTH + 1}
\* what a continuation request carries as start_node_uuid: nothing, or a
\* node that is not the root of any session
ProtoOtherRoots == {NoUuid, 2}
ProtoLimits == {100, MAX_RESPONSE_TOKENS}
ProtoStores == { <<[uuid |-> 1, src |-> 1, tgt |-> 2, name |-> 1]>> }
\* the query hashes issue_token is called with directly: one that no
\* session of the model has, and the one of the sessions that get stored
QueryHashes == { QueryHash(2, DefaultDepth), QueryHash(1, MAX_DEPTH) }

InitProto ==
  /\ dbEdges \in ProtoStores
  /\ dbMissing = {} /\ dbFailing = {}
  /\ budgetLimit \in ProtoLimits
  /\ sess = NoSession /\ sessions = {} /\ call = IdleCall /\ cursor = NoCursor
  /\ emitted = <<>> /\ seenNodes = {} /\ resume = NoFrame
  /\ ordIn1 = <<>> /\ ordIn2 = <<>> /\ ordOut1 = <<>> /\ ordOut2 = <<>>
  /\ ProtoIdle

Put(p, c) == [calls EXCEPT ![p] = c]

\* calls are anonymous coroutines: a request takes the first free slot
FreeSlot(p) ==
  /\ calls[p].pc = "idle"
  /\ \A q \in Procs : q < p => calls[q].pc # "idle"

Suspended(c) == c.pc \in {"fetch_root", "fetch_edges", "fetch_node"}
InAdvance(c) ==
  c.pc \in {"fetch_root", "loop", "fetch_edges", "edge", "fetch_node", "respond"}

\* what a client can present as a cursor: an issued token, or one altered
\* in its signature text, its payload, its signature or its shape
Presentable ==
  UNION { { t,
            [t EXCEPT !.sig.junk = TRUE],
            [t EXCEPT !.payload.exp = @ + SESSION_TTL],
            [t EXCEPT !.sig.mac = Hmac(NoPayload)],
            [t EXCEPT !.parts = 1] } : t \in tokens }

\* variant of InUse that hands out again the id of a deleted session
InUseStored(sid) ==
  \/ sid \in storedIds
  \/ \E p \in Procs : calls[p].pc # "idle" /\ calls[p].sid = sid

\* uuid.uuid4(): an id that no session, token or running call refers to
InUse(sid) ==
  \/ sid \in storedIds
  \/ \E t \in tokens : t.payload.sid = sid
  \/ \E p \in Procs : calls[p].pc # "idle" /\ calls[p].sid = sid
FreshSid == CHOOSE sid \in SessionIds :
              ~InUse(sid) /\ \A o \in SessionIds : ~InUse(o) => sid <= o

\* variant of ArgsValid that lets one level too many through
ArgsValidLoose(root, depth) ==
  root # NoUuid /\ depth >= 0 /\ depth <= MAX_DEPTH + 1

\* the argument checks of an initial request (wrapper lines 92-96)
ArgsValid(root, depth) ==
  root # NoUuid /\ depth >= 0 /\ depth <= MAX_DEPTH

\* a request without cursor arrives
RequestInitial(p, root, depth) ==
  /\ active = 0
  /\ FreeSlot(p)
  /\ Cardinality(tokens) <= MaxTokens
  /\ \E sid \in SessionIds : ~InUse(sid)
  /\ calls' = Put(p, [IdleProc EXCEPT !.pc = "args", !.args = <<root, depth>>])
  /\ active' = p
  /\ UNCHANGED <<travVars, ordVars, now, heap, storedIds, tokens, pages,
                 tainted, mismatched>>

\* wrapper lines 92-96: raise ValueError
RejectArgs(p) ==
  /\ active = p
  /\ calls[p].pc = "args"
  /\ ~ArgsValid(calls[p].args[1], calls[p].args[2])
  /\ calls' = Put(p, [IdleProc EXCEPT !.outcome = "INVALID_ARGUMENT",
                                      !.raised = TRUE])
  /\ active' = 0
  /\ UNCHANGED <<travVars, ordVars, now, heap, storedIds, tokens, pages,
                 tainted, mismatched>>

\* wrapper lines 98-121 and engine lines 58-71: make the session, mark the
\* root visited and await the root node
CreateSession(p) ==
  /\ active = p
  /\ calls[p].pc = "args"
  /\ ArgsValid(calls[p].args[1], calls[p].args[2])
  /\ LET sid == FreshSid
         root == calls[p].args[1]
         depth == calls[p].args[2]
     IN /\ heap' = [heap EXCEPT ![sid] =
                      [NewSessionAt(root, depth, now) EXCEPT !.visited = <<root>>]]
        /\ pages' = [pages EXCEPT ![sid] = <<>>]
        /\ tainted' = tainted \ {sid}
        /\ mismatched' = mismatched \ {sid}
        /\ calls' = Put(p, [calls[p] EXCEPT !.pc = "fetch_root", !.sid = sid])
  /\ active' = 0
  /\ UNCHANGED <<travVars, ordVars, now, storedIds, tokens>>

\* engine lines 73-84: the root record, the root frame, the early return
RootFetched(p) ==
  /\ active = 0
  /\ calls[p].pc = "fetch_root"
  /\ LET c == calls[p]
         s == heap[c.sid]
     IN /\ heap' = [heap EXCEPT ![c.sid] =
                      [s EXCEPT !.frontier =
                         IF s.max_depth > 0
                         THEN Append(s.frontier, Frame(s.root_uuid, s.max_depth, 0))
                         ELSE s.frontier]]
        /\ calls' = Put(p, [c EXCEPT
                              !.pc = IF s.max_depth = 0 THEN "respond" ELSE "loop",
                              !.nodes = {s.root_uuid},
                              !.has_more = FALSE])
  /\ active' = p
  /\ UNCHANGED <<travVars, ordVars, now, storedIds, tokens, pages, tainted,
                 mismatched>>

\* variant of CursorOutcome that never compares the query hash
CursorOutcomeNoHash(tok, t, ids, h) ==
  IF VerifyToken(tok, t) # "ok" THEN VerifyToken(tok, t)
  ELSE IF tok.payload.sid \notin ids THEN "SESSION_NOT_FOUND"
  ELSE "ok"

\* the cursor checks of a continuation (wrapper lines 72-88): verify the
\* token, load the session, compare the query hash
CursorOutcome(tok, t, ids, h) ==
  IF VerifyToken(tok, t) # "ok" THEN VerifyToken(tok, t)
  ELSE IF tok.payload.sid \notin ids THEN "SESSION_NOT_FOUND"
  ELSE IF tok.payload.qh # h[tok.payload.sid].query_hash THEN "QUERY_MISMATCH"
  ELSE "ok"

\* a request with a cursor arrives; start_node_uuid and depth come with it
RequestContinue(p, tok, root, depth) ==
  /\ active = 0
  /\ FreeSlot(p)
  /\ Cardinality(tokens) <= MaxTokens
  /\ calls' = Put(p, [IdleProc EXCEPT !.pc = "verify", !.tok = tok,
                                      !.args = <<root, depth>>])
  /\ active' = p
  /\ UNCHANGED <<travVars, ordVars, now, heap, storedIds, tokens, pages,
                 tainted, mismatched>>

\* variant of RefuseSess that deletes the session it refuses
RefuseSessDelete(ids, sid) == ids \ {sid}

\* SessionStore._sessions after a cursor was refused (wrapper lines 75-88)
RefuseSess(ids, sid) == ids

\* wrapper lines 73-88: raise one of the four cursor errors
RefuseCursor(p) ==
  /\ active = p
  /\ calls[p].pc = "verify"
  /\ LET tok == calls[p].tok
         out == CursorOutcome(tok, now, storedIds, heap)
     IN /\ out # "ok"
        /\ calls' = Put(p, [IdleProc EXCEPT !.outcome = out, !.raised = TRUE,
                                            !.sid = tok.payload.sid])
        /\ storedIds' = RefuseSess(storedIds, tok.payload.sid)
        /\ mismatched' = IF out = "QUERY_MISMATCH"
                         THEN mismatched \cup {tok.payload.sid}
                         ELSE mismatched
  /\ active' = 0
  /\ UNCHANGED <<travVars, ordVars, now, heap, tokens, pages, tainted>>

\* wrapper lines 80-88 and 114: the loaded session object goes to advance_bfs
AcceptCursor(p) ==
  /\ active = p
  /\ calls[p].pc = "verify"
  /\ LET tok == calls[p].tok
         sid == tok.payload.sid
     IN /\ CursorOutcome(tok, now, storedIds, heap) = "ok"
        /\ calls' = Put(p, [calls[p] EXCEPT
                              !.pc = "loop", !.sid = sid, !.continuation = TRUE,
                              !.snap = heap[sid], !.retry = sid \in mismatched])
        /\ LET overlap == \E q \in Procs \ {p} :
                             InAdvance(calls[q]) /\ calls[q].sid = sid
           IN /\ tainted' = IF overlap THEN tainted \cup {sid} ELSE tainted
              /\ pages' = IF overlap THEN [pages EXCEPT ![sid] = <<>>] ELSE pages
  /\ UNCHANGED <<travVars, ordVars, now, heap, storedIds, tokens, active,
                 mismatched>>

\* while sess.frontier: false (lines 87 and 179-181)
ProcFrontierEmpty(p) ==
  /\ active = p
  /\ calls[p].pc = "loop"
  /\ heap[calls[p].sid].frontier = <<>>
  /\ calls' = Put(p, [calls[p] EXCEPT !.pc = "respond", !.has_more = FALSE])
  /\ UNCHANGED <<travVars, ordVars, now, heap, storedIds, tokens, active, pages,
                 tainted, mismatched>>

\* frame = sess.frontier.pop(0), then await its edges (lines 88-92)
ProcPopFrame(p) ==
  /\ active = p
  /\ calls[p].pc = "loop"
  /\ LET sid == calls[p].sid
     IN /\ heap[sid].frontier # <<>>
        /\ calls' = Put(p, [calls[p] EXCEPT !.pc = "fetch_edges",
                                            !.frame = Head(heap[sid].frontier)])
        /\ heap' = [heap EXCEPT ![sid].frontier = Tail(@)]
  /\ active' = 0
  /\ UNCHANGED <<travVars, ordVars, now, storedIds, tokens, pages, tainted,
                 mismatched>>

\* the edges arrive and are sorted (lines 97-105)
EdgesFetched(p) ==
  /\ active = 0
  /\ calls[p].pc = "fetch_edges"
  /\ LET c == calls[p]
         es == FetchedEdges(c.frame.node_uuid)
     IN calls' = Put(p, IF es = <<>>
                        THEN [c EXCEPT !.pc = "loop", !.frame = NoFrame]
                        ELSE [c EXCEPT !.pc = "edge",
                                       !.edges_sorted = SortedEdges(es),
                                       !.i = c.frame.next_edge_index])
  /\ active' = p
  /\ UNCHANGED <<travVars, ordVars, now, heap, storedIds, tokens, pages, tainted,
                 mismatched>>

\* while i < len(edges_sorted): false (lines 106 and 176)
ProcFrameDone(p) ==
  /\ active = p
  /\ calls[p].pc = "edge"
  /\ calls[p].i >= Len(calls[p].edges_sorted)
  /\ calls' = Put(p, [calls[p] EXCEPT !.pc = "loop", !.frame = NoFrame,
                                      !.edges_sorted = <<>>, !.i = 0])
  /\ UNCHANGED <<travVars, ordVars, now, heap, storedIds, tokens, active, pages,
                 tainted, mismatched>>

\* the edge record is formatted with the current yielded_edges
\* (lines 107-127)
Formatted(c, s) ==
  EdgeObj(c.edges_sorted[c.i + 1], [s EXCEPT !.yielded_edges = c.order], c.frame)

\* target not in sess.visited: await the target node (lines 130-131)
AwaitNode(p) ==
  /\ active = p
  /\ calls[p].pc = "edge"
  /\ calls[p].i < Len(calls[p].edges_sorted)
  /\ LET c == calls[p]
         s == heap[c.sid]
         target == OtherEnd(c.edges_sorted[c.i + 1], c.frame.node_uuid)
     IN /\ ~InSeq(target, s.visited)
        /\ calls' = Put(p, [c EXCEPT !.pc = "fetch_node",
                                     !.order = s.yielded_edges])
  /\ active' = 0
  /\ UNCHANGED <<travVars, ordVars, now, heap, storedIds, tokens, pages, tainted,
                 mismatched>>

\* the target node arrived and fits: commit node and edge (lines 132-156)
NodeFetchedEmit(p) ==
  /\ active = 0
  /\ calls[p].pc = "fetch_node"
  /\ LET c == calls[p]
         s == heap[c.sid]
         target == OtherEnd(c.edges_sorted[c.i + 1], c.frame.node_uuid)
     IN /\ NewEdgeFits(c, target, budgetLimit)
        /\ calls' = Put(p, [c EXCEPT !.pc = "edge",
                                     !.nodes = c.nodes \cup {target},
                                     !.edges = Append(c.edges, Formatted(c, s)),
                                     !.i = c.i + 1])
        /\ heap' = [heap EXCEPT ![c.sid] = CommitNewSess(s, c.frame, target)]
  /\ active' = p
  /\ UNCHANGED <<travVars, ordVars, now, storedIds, tokens, pages, tainted,
                 mismatched>>

\* the target node arrived and does not fit: put the frame back and return
\* (lines 157-162)
NodeFetchedCut(p) ==
  /\ active = 0
  /\ calls[p].pc = "fetch_node"
  /\ LET c == calls[p]
         s == heap[c.sid]
         target == OtherEnd(c.edges_sorted[c.i + 1], c.frame.node_uuid)
     IN /\ ~NewEdgeFits(c, target, budgetLimit)
        /\ calls' = Put(p, [c EXCEPT !.pc = "respond", !.has_more = TRUE])
        /\ heap' = [heap EXCEPT ![c.sid] = CutSess(s, c.frame, c.i)]
  /\ active' = p
  /\ UNCHANGED <<travVars, ordVars, now, storedIds, tokens, pages, tainted,
                 mismatched>>

\* target already visited and within budget (lines 163-168)
ProcEmitVisited(p) ==
  /\ active = p
  /\ calls[p].pc = "edge"
  /\ calls[p].i < Len(calls[p].edges_sorted)
  /\ LET c == calls[p]
         s == heap[c.sid]
         target == OtherEnd(c.edges_sorted[c.i + 1], c.frame.node_uuid)
     IN /\ InSeq(target, s.visited)
        /\ CanAddEdge(c, budgetLimit)
        /\ calls' = Put(p, [c EXCEPT
                              !.edges = Append(c.edges,
                                 Formatted([c EXCEPT !.order = s.yielded_edges], s)),
                              !.i = c.i + 1])
        /\ heap' = [heap EXCEPT ![c.sid] = CommitVisitedSess(s)]
  /\ UNCHANGED <<travVars, ordVars, now, storedIds, tokens, active, pages,
                 tainted, mismatched>>

\* target already visited and over budget (lines 169-174)
ProcCutVisited(p) ==
  /\ active = p
  /\ calls[p].pc = "edge"
  /\ calls[p].i < Len(calls[p].edges_sorted)
  /\ LET c == calls[p]
         s == heap[c.sid]
         target == OtherEnd(c.edges_sorted[c.i + 1], c.frame.node_uuid)
     IN /\ InSeq(target, s.visited)
        /\ ~CanAddEdge(c, budgetLimit)
        /\ calls' = Put(p, [c EXCEPT !.pc = "respond", !.has_more = TRUE])
        /\ heap' = [heap EXCEPT ![c.sid] = CutSess(s, c.frame, c.i)]
  /\ UNCHANGED <<travVars, ordVars, now, storedIds, tokens, active, pages,
                 tainted, mismatched>>

\* variant of ProcStoreAfter that empties the store when a traversal ends
ProcStoreAfterClear(has_more, continuation, ids, sid) ==
  IF has_more THEN ids \cup {sid}
  ELSE IF continuation THEN {} ELSE ids

\* variant of ProcStoreAfter that keeps the session of a finished traversal
ProcStoreAfterKeep(has_more, continuation, ids, sid) ==
  IF has_more THEN ids \cup {sid} ELSE ids

\* SessionStore._sessions after the response was assembled (lines 132-156)
ProcStoreAfter(has_more, continuation, ids, sid) ==
  IF has_more THEN ids \cup {sid}
  ELSE IF continuation THEN ids \ {sid} ELSE ids

\* the session objects after call p dropped its reference to session sid:
\* an object that is neither stored nor held by another call is freed
Release(h, ids, p, sid) ==
  IF sid \in ids \/ \E q \in Procs \ {p} : InAdvance(calls[q]) /\ calls[q].sid = sid
  THEN h
  ELSE [h EXCEPT ![sid] = NoSessionAt]

\* what a response shows: node keys, edge records, has_more; query is a
\* history field, the query of the session that served the page
Page(c, s) == [nodes |-> c.nodes, edges |-> Views(c.edges), has_more |-> c.has_more,
               query |-> <<s.root_uuid, s.max_depth>>]

\* variant of ResponseQh that hashes the arguments of the request
ResponseQhFromArgs(c, s) == QueryHash(c.args[1], c.args[2])

\* the query hash given to issue_token (wrapper line 139): sess.query_hash
ResponseQh(c, s) == s.query_hash

\* response assembly of the wrapper (lines 123-158); the call returns
ProcRespond(p) ==
  /\ active = p
  /\ calls[p].pc = "respond"
  /\ LET c == calls[p]
         tok == IssueTokenAt(c.sid, ResponseQh(c, heap[c.sid]), CURSOR_TTL, now)
     IN /\ storedIds' = ProcStoreAfter(c.has_more, c.continuation, storedIds, c.sid)
        /\ tokens' = IF c.has_more THEN tokens \cup {tok} ELSE tokens
        /\ pages' = IF c.sid \in tainted /\ pages[c.sid] = <<>> THEN pages
                     ELSE [pages EXCEPT ![c.sid] = Append(@, Page(c, heap[c.sid]))]
        /\ calls' = Put(p, [IdleProc EXCEPT
                              !.outcome = "page", !.sid = c.sid,
                              !.continuation = c.continuation,
                              !.has_more = c.has_more, !.retry = c.retry])
        /\ heap' = Release(heap, storedIds', p, c.sid)
  /\ active' = 0
  /\ UNCHANGED <<travVars, ordVars, now, tainted, mismatched>>

\* the call is cancelled while it awaits the store (CancelledError is
\* raised at the await of line 71, 92 or 131 and is not caught)
Abort(p) ==
  /\ active = 0
  /\ Suspended(calls[p])
  /\ calls' = Put(p, [IdleProc EXCEPT !.outcome = "aborted", !.raised = TRUE,
                                      !.sid = calls[p].sid,
                                      !.continuation = calls[p].continuation])
  /\ tainted' = tainted \cup {calls[p].sid}
  /\ pages' = pages
  /\ heap' = Release(heap, storedIds, p, calls[p].sid)
  /\ UNCHANGED <<travVars, ordVars, now, storedIds, tokens, active, mismatched>>

\* time passes while no call holds the event loop; the clock is followed
\* for `ticks` steps
Tick(ticks) ==
  /\ active = 0
  /\ now < ticks * TickSeconds
  /\ now' = now + TickSeconds
  /\ UNCHANGED <<travVars, ordVars, heap, storedIds, tokens, calls, active, pages,
                 tainted, mismatched>>

\* SessionStore.issue_token called on the store directly, for a stored
\* session and any query hash
DirectIssue(sid, qh) ==
  /\ active = 0
  /\ sid \in storedIds
  /\ Cardinality(tokens) < MaxTokens
  /\ tokens' = tokens \cup {IssueTokenAt(sid, qh, CURSOR_TTL, now)}
  /\ UNCHANGED <<travVars, ordVars, now, heap, storedIds, calls, active, pages,
                 tainted, mismatched>>

\* the steps of call p between its request and its return
Steps(p) ==
  \/ RejectArgs(p)
  \/ CreateSession(p)
  \/ RootFetched(p)
  \/ RefuseCursor(p)
  \/ AcceptCursor(p)
  \/ ProcFrontierEmpty(p)
  \/ ProcPopFrame(p)
  \/ EdgesFetched(p)
  \/ ProcFrameDone(p)
  \/ AwaitNode(p)
  \/ NodeFetchedEmit(p)
  \/ NodeFetchedCut(p)
  \/ ProcEmitVisited(p)
  \/ ProcCutVisited(p)
  \/ ProcRespond(p)

\* one call at a time, with a clock, altered cursors, directly issued
\* tokens and cancellation
NextSeq ==
  \/ \E root \in ProtoRoots, depth \in ProtoDepths : RequestInitial(1, root, depth)
  \/ \E tok \in Presentable, root \in ProtoOtherRoots :
       RequestContinue(1, tok, root, DefaultDepth)
  \/ \E sid \in SessionIds, qh \in QueryHashes : DirectIssue(sid, qh)
  \/ Tick(MaxSeqTicks)
  \/ Steps(1)
  \/ Abort(1)

SpecSeq == InitProto /\ [][NextSeq]_vars

\* one call at a time through the public operation alone: every token comes
\* from a response of the wrapper
NextWrap ==
  \/ \E root \in ProtoRoots, depth \in ProtoDepths : RequestInitial(1, root, depth)
  \/ \E tok \in Presentable, root \in ProtoOtherRoots :
       RequestContinue(1, tok, root, DefaultDepth)
  \/ Tick(MaxSeqTicks)
  \/ Steps(1)
  \/ Abort(1)

SpecWrap == InitProto /\ [][NextWrap]_vars

\* the same calls with the clock followed past the session TTL
NextLive ==
  \/ \E root \in ProtoRoots, depth \in ProtoDepths : RequestInitial(1, root, depth)
  \/ \E tok \in Presentable, root \in ProtoOtherRoots :
       RequestContinue(1, tok, root, DefaultDepth)
  \/ \E sid \in SessionIds, qh \in QueryHashes : DirectIssue(sid, qh)
  \/ Tick(MaxTicks)
  \/ Steps(1)
  \/ Abort(1)

\* the clock runs and a call that can take a step takes it; a client is
\* free never to come back
LiveSeq ==
  InitProto /\ [][NextLive]_vars /\ WF_vars(Tick(MaxTicks)) /\ WF_vars(Steps(1))

ConcStores ==
  ProtoStores \cup { <<[uuid |-> 1, src |-> 1, tgt |-> 2, name |-> 1],
                       [uuid |-> 2, src |-> 2, tgt |-> 3, name |-> 1]>> }

InitConc ==
  /\ dbEdges \in ConcStores
  /\ dbMissing = {} /\ dbFailing = {}
  /\ budgetLimit \in ProtoLimits
  /\ sess = NoSession /\ sessions = {} /\ call = IdleCall /\ cursor = NoCursor
  /\ emitted = <<>> /\ seenNodes = {} /\ resume = NoFrame
  /\ ordIn1 = <<>> /\ ordIn2 = <<>> /\ ordOut1 = <<>> /\ ordOut2 = <<>>
  /\ ProtoIdle

\* two calls in flight, interleaved at the suspension points
NextConc ==
  \/ \E p \in Procs, root \in ProtoRoots, depth \in ProtoDepths :
       RequestInitial(p, root, depth)
  \/ \E p \in Procs, tok \in tokens : RequestContinue(p, tok, NoUuid, DefaultDepth)
  \/ \E p \in Procs : Steps(p)

SpecConc == InitConc /\ [][NextConc]_vars

\* --------------------------------------- one session paged on its own
\* advance_bfs on session s from the main loop on, with the page c built so
\* far (lines 87-181): the session, the page and has_more at the return
RECURSIVE PageFrames(_, _, _)
RECURSIVE PageEdges(_, _, _, _, _, _)
PageFrames(s, c, lim) ==
  IF s.frontier = <<>>
  THEN [sess |-> s, nodes |-> c.nodes, edges |-> c.edges, has_more |-> FALSE]
  ELSE LET f == Head(s.frontier)
       IN PageEdges([s EXCEPT !.frontier = Tail(s.frontier)], c, f,
                    SortedEdges(FetchedEdges(f.node_uuid)), f.next_edge_index, lim)
PageEdges(s, c, f, es, k, lim) ==
  IF k >= Len(es) THEN PageFrames(s, c, lim)
  ELSE LET e == es[k + 1]
           target == OtherEnd(e, f.node_uuid)
           seen == InSeq(target, s.visited)
           fits == IF seen THEN CanAddEdge(c, lim) ELSE NewEdgeFits(c, target, lim)
       IN IF ~fits
          THEN [sess |-> CutSess(s, f, k), nodes |-> c.nodes, edges |-> c.edges,
                has_more |-> TRUE]
          ELSE PageEdges(IF seen THEN CommitVisitedSess(s)
                                 ELSE CommitNewSess(s, f, target),
                         [nodes |-> IF seen THEN c.nodes ELSE c.nodes \cup {target},
                          edges |-> Append(c.edges, EdgeObj(e, s, f))],
                         f, es, k + 1, lim)

\* one call of advance_bfs on session s (lines 58-181)
AdvancePage(s, lim) ==
  IF s.visited = <<>>
  THEN LET s1 == [s EXCEPT !.visited = <<s.root_uuid>>,
                           !.frontier = IF s.max_depth > 0
                                        THEN <<Frame(s.root_uuid, s.max_depth, 0)>>
                                        ELSE <<>>]
       IN IF s.max_depth = 0
          THEN [sess |-> s1, nodes |-> {s.root_uuid}, edges |-> <<>>,
                has_more |-> FALSE]
          ELSE PageFrames(s1, [nodes |-> {s.root_uuid}, edges |-> <<>>], lim)
  ELSE PageFrames(s, [nodes |-> {}, edges |-> <<>>], lim)

\* the first n pages of session s when no other call runs: each
\* continuation advances the session the page before it left
RECURSIVE SoloRun(_, _, _)
SoloRun(s, n, lim) ==
  IF n = 0 THEN <<>>
  ELSE LET r == AdvancePage(s, lim)
       IN <<r>> \o (IF r.has_more THEN SoloRun(r.sess, n - 1, lim) ELSE <<>>)

\* ----------------------------------------------------------------- claims
\* the last response said has_more = false
Done == call.pc = "idle" /\ cursor.responded /\ ~cursor.has_more

\* every edge record emitted so far, the page under construction included
AllEmitted == IF call.pc = "idle" THEN emitted ELSE emitted \o call.edges

\* neighbours of a node set, edges taken as undirected
Neighbours(S) ==
  { n \in Nodes : \E k \in 1..Len(dbEdges) :
        \/ (dbEdges[k].src \in S /\ dbEdges[k].tgt = n)
        \/ (dbEdges[k].tgt \in S /\ dbEdges[k].src = n) }

\* the nodes within d hops of the set S
RECURSIVE ReachWithin(_, _)
ReachWithin(S, d) == IF d = 0 THEN S ELSE ReachWithin(S \cup Neighbours(S), d - 1)

\* C1: when pagination has reached has_more = false, the union of the
\* `nodes` keys of all pages contains every node within max_depth hops of
\* the root, edges taken as undirected.
C1_NodesComplete ==
  Done => ReachWithin({sess.root_uuid}, sess.max_depth) \subseteq seenNodes

\* C1 case: a traversal of several pages that reached a node two hops away
C1_Witness ==
  /\ Done /\ call.continuation
  /\ sess.max_depth >= 2
  /\ seenNodes = Nodes
  /\ ReachWithin({sess.root_uuid}, 1) # Nodes

\* C2: following the cursor chain, a page with has_more = false is
\* eventually returned, for any graph and any budget limit.
C2_PaginationTerminates == <>Done

\* C3: when pagination has reached has_more = false, the edges of all pages
\* in page order are the same sequence of (source, target, type, depth,
\* order) as the edge list of one advance with unlimited budget.
C3_PageBoundariesInvisible ==
  Done => Views(emitted) = Views(AdvanceUnlimited(sess.root_uuid, sess.max_depth))

\* C3 case: a traversal cut by the budget into several pages with edges
C3_Witness ==
  /\ Done /\ call.continuation
  /\ budgetLimit < MAX_RESPONSE_TOKENS
  /\ Len(emitted) >= 3
  /\ call.edges # emitted

\* C4: the estimated token size of every returned page is at most the
\* budget limit.
C4_PageWithinBudget == call.pc = "respond" => call.est <= budgetLimit

\* C5: the step that rejects an edge for the budget leaves the page's
\* edges and nodes, visited and yielded_edges as they were and enqueues
\* no frame: it only puts the current frame back.
C5_RejectAtomic ==
  [][ (call.pc = "edge" /\ call'.pc = "respond") =>
        /\ call'.edges = call.edges
        /\ call'.nodes = call.nodes
        /\ sess'.visited = sess.visited
        /\ sess'.yielded_edges = sess.yielded_edges
        /\ sess'.frontier # <<>>
        /\ Tail(sess'.frontier) = sess.frontier
        /\ Head(sess'.frontier).node_uuid = call.frame.node_uuid ]_vars

\* C5 case: a partial page whose rejected edge leads to an unvisited node
C5_Witness ==
  /\ call.pc = "respond" /\ call.has_more
  /\ call.edges # <<>>
  /\ ~InSeq(OtherEnd(call.edges_sorted[call.i + 1], call.frame.node_uuid),
            sess.visited)

\* C6: when a page is cut at edge index i of frame F, F is the head of the
\* frontier with next_edge_index = i, every other frame is behind it, edge
\* i of F is not emitted from F, the next advance starts at edge i of F and
\* the first edge it emits is edge i of F's node in the ordered edge list.
C6_ResumeInPlace ==
  /\ (call.pc = "respond" /\ call.has_more) =>
       /\ sess.frontier # <<>>
       /\ Head(sess.frontier) =
            Frame(call.frame.node_uuid, call.frame.depth_remaining, call.i)
       /\ \A k \in 2..Len(sess.frontier) :
            /\ sess.frontier[k].node_uuid # call.frame.node_uuid
            /\ sess.frontier[k].next_edge_index = 0
       /\ \A k \in 1..Len(AllEmitted) :
            ~(/\ AllEmitted[k].uuid = call.edges_sorted[call.i + 1].uuid
              /\ AllEmitted[k].focus = call.frame.node_uuid)
  /\ (call.continuation /\ call.pc = "edge" /\ call.edges = <<>>) =>
       /\ call.frame = resume
       /\ call.i = resume.next_edge_index
  /\ (call.continuation /\ call.pc # "idle" /\ call.edges # <<>>) =>
       LET es == SortedEdges(Incident(resume.node_uuid))
       IN /\ resume.next_edge_index < Len(es)
          /\ call.edges[1].uuid = es[resume.next_edge_index + 1].uuid
          /\ call.edges[1].focus = resume.node_uuid

\* C6 case: a continuation page that resumed a frame in its middle while
\* other frames were waiting
C6_Witness ==
  /\ call.continuation /\ call.edges # <<>>
  /\ resume.next_edge_index > 0
  /\ call.pc = "respond" /\ call.has_more
  /\ Len(sess.frontier) >= 2

\* what the wire shows of a store edge
StoreEdgeView(e) == <<e.src, e.tgt, e.name>>
StoreViews(es) == [k \in 1..Len(es) |-> StoreEdgeView(es[k])]

\* C7: two physical orders of the same incident edge list are ordered into
\* the same sequence of (source, target, type).
C7_OrderIndependent ==
  ordOut1 # <<>> => StoreViews(ordOut1) = StoreViews(ordOut2)

\* C8: the ids of the edges emitted in all pages of the session are
\* pairwise distinct.
C8_IdsDistinct ==
  \A a, b \in 1..Len(AllEmitted) : a # b => AllEmitted[a].id # AllEmitted[b].id

\* C8 case: a finished traversal that emitted the same source and target
\* more than once
C8_Witness ==
  /\ Done
  /\ \E a, b \in 1..Len(emitted) :
       /\ a # b
       /\ emitted[a].source = emitted[b].source
       /\ emitted[a].target = emitted[b].target

\* C9 as claimed: each store edge is emitted at most once in the session.
C9_EdgeOnce ==
  \A a, b \in 1..Len(AllEmitted) : a # b => AllEmitted[a].uuid # AllEmitted[b].uuid

\* C9: each store edge is emitted at most once from the frame of each of
\* its endpoints.
C9_EdgeOncePerFrame ==
  \A a, b \in 1..Len(AllEmitted) :
    a # b => <<AllEmitted[a].uuid, AllEmitted[a].focus>>
               # <<AllEmitted[b].uuid, AllEmitted[b].focus>>

\* C9 case: a paginated traversal in which an edge was emitted from both of
\* its endpoints' frames
C9_Witness ==
  /\ Done /\ call.continuation
  /\ \E a, b \in 1..Len(emitted) :
       /\ a # b
       /\ emitted[a].uuid = emitted[b].uuid
       /\ emitted[a].focus # emitted[b].focus

\* C10: every emitted edge has depth in 1..max_depth; with max_depth = 0
\* no edge is emitted.
C10_DepthBound ==
  \A k \in 1..Len(AllEmitted) :
    AllEmitted[k].depth >= 1 /\ AllEmitted[k].depth <= sess.max_depth

\* C10 case: an edge emitted at the deepest level of a depth-2 traversal
C10_Witness ==
  /\ Done
  /\ sess.max_depth = 2
  /\ \E k \in 1..Len(emitted) : emitted[k].depth = 2

\* ------------------------------------------------- claims on the protocol
\* the token splits in two parts and its signature decodes to the MAC of
\* its payload
WellSigned(tok) == tok.parts = 2 /\ tok.sig.mac = Hmac(tok.payload)

\* C11: a continuation with a correctly signed cursor whose exp is earlier
\* than the current time is answered CURSOR_EXPIRED, and the call leaves the
\* session store as it was: the same sessions with the same state.
C11_ExpiredUntouched ==
  [][ \A p \in Procs :
        (/\ calls[p].pc = "verify"
         /\ WellSigned(calls[p].tok)
         /\ calls[p].tok.payload.exp < now) =>
          /\ calls'[p].pc = "idle"
          /\ calls'[p].outcome = "CURSOR_EXPIRED"
          /\ storedIds' = storedIds
          /\ heap' = heap ]_vars

\* C11 case: CURSOR_EXPIRED was answered for a session that is still stored
\* with frames pending
C11_Witness ==
  \E p \in Procs :
    /\ calls[p].pc = "idle" /\ calls[p].outcome = "CURSOR_EXPIRED"
    /\ calls[p].sid \in storedIds
    /\ heap[calls[p].sid].frontier # <<>>

\* C12: a continuation with a valid cursor whose qh differs from the stored
\* session's query_hash is answered QUERY_MISMATCH without advancing; the
\* session stays stored and unmodified, and a valid cursor with the matching
\* qh presented for that session afterwards is accepted.
C12_MismatchKeepsSession ==
  [][ \A p \in Procs :
        LET tok == calls[p].tok
            sid == tok.payload.sid
            valid == /\ calls[p].pc = "verify" /\ WellSigned(tok)
                     /\ tok.payload.exp >= now /\ sid \in storedIds
        IN /\ (valid /\ tok.payload.qh # heap[sid].query_hash) =>
                /\ calls'[p].pc = "idle"
                /\ calls'[p].outcome = "QUERY_MISMATCH"
                /\ storedIds' = storedIds
                /\ heap' = heap
           /\ (valid /\ tok.payload.qh = heap[sid].query_hash
                     /\ sid \in mismatched) =>
                /\ calls'[p].pc = "loop"
                /\ calls'[p].sid = sid ]_vars

\* C12 case: a page was served for a session that had answered
\* QUERY_MISMATCH before
C12_Witness ==
  \E p \in Procs :
    /\ calls[p].pc = "idle" /\ calls[p].outcome = "page"
    /\ calls[p].continuation /\ calls[p].retry

\* C13: malformed token or wrong signature gives INVALID_CURSOR; valid
\* signature with past expiry gives CURSOR_EXPIRED; valid unexpired token
\* whose sid has no stored session gives SESSION_NOT_FOUND; valid token with
\* a stored session whose query_hash differs from qh gives QUERY_MISMATCH;
\* a cursor with none of these failures gets no error.
C13_ErrorKindsDistinct ==
  [][ \A p \in Procs :
        LET tok == calls[p].tok
            sid == tok.payload.sid
            bad == ~WellSigned(tok)
            expired == tok.payload.exp < now
            missing == sid \notin storedIds
            differs == ~missing /\ tok.payload.qh # heap[sid].query_hash
        IN calls[p].pc = "verify" =>
             /\ bad => calls'[p].outcome = "INVALID_CURSOR"
             /\ (~bad /\ expired) => calls'[p].outcome = "CURSOR_EXPIRED"
             /\ (~bad /\ ~expired /\ missing) =>
                  calls'[p].outcome = "SESSION_NOT_FOUND"
             /\ (~bad /\ ~expired /\ differs) =>
                  calls'[p].outcome = "QUERY_MISMATCH"
             /\ (~bad /\ ~expired /\ ~missing /\ ~differs) =>
                  calls'[p].outcome = "none" ]_vars

\* C13 case: an expired cursor of a session that is no longer stored was
\* answered CURSOR_EXPIRED, not SESSION_NOT_FOUND
C13_Witness ==
  \E p \in Procs :
    /\ calls[p].pc = "idle" /\ calls[p].outcome = "CURSOR_EXPIRED"
    /\ calls[p].sid \notin storedIds

\* C14: a continuation that carries a valid cursor together with a
\* start_node_uuid other than the session's root_uuid is answered
\* QUERY_MISMATCH.
C14_OtherQueryRefused ==
  [][ \A p \in Procs :
        LET tok == calls[p].tok
            sid == tok.payload.sid
        IN (/\ calls[p].pc = "verify"
            /\ WellSigned(tok) /\ tok.payload.exp >= now
            /\ sid \in storedIds
            /\ calls[p].args[1] # NoUuid
            /\ calls[p].args[1] # heap[sid].root_uuid) =>
             calls'[p].outcome = "QUERY_MISMATCH" ]_vars

\* C15: when a page is returned with has_more = true the session is stored
\* under its sid and a token expiring one cursor TTL from now is issued for
\* it; with has_more = false no token is issued and no session is stored
\* under the sid.
C15_ResponseAssembly ==
  [][ \A p \in Procs :
        LET c == calls[p]
        IN c.pc = "respond" =>
             /\ calls'[p].pc = "idle" /\ calls'[p].outcome = "page"
             /\ c.has_more =>
                  /\ c.sid \in storedIds'
                  /\ \E t \in tokens' :
                       /\ t.payload.sid = c.sid
                       /\ t.payload.qh = heap[c.sid].query_hash
                       /\ t.payload.exp = now + CURSOR_TTL
             /\ ~c.has_more =>
                  /\ c.sid \notin storedIds'
                  /\ tokens' = tokens ]_vars

\* C15 case: a continuation returned has_more = false and the session that
\* earlier cursors point to is gone from the store
C15_Witness ==
  \E p \in Procs :
    /\ calls[p].pc = "idle" /\ calls[p].outcome = "page"
    /\ calls[p].continuation /\ ~calls[p].has_more
    /\ calls[p].sid \notin storedIds
    /\ \E t \in tokens : t.payload.sid = calls[p].sid

\* C16: when a continuation is abandoned while advance awaits the store,
\* the stored session is the one that was stored when the call began.
C16_AbortKeepsSession ==
  [][ \A p \in Procs :
        (/\ Suspended(calls[p]) /\ calls[p].continuation
         /\ calls'[p].outcome = "aborted") =>
          /\ calls[p].sid \in storedIds'
          /\ heap'[calls[p].sid] = calls[p].snap ]_vars

\* C17: no continuation returns has_more = false while another call on the
\* same session id still holds a frame of that session that it has not
\* finished.
C17_NoEarlyCompletion ==
  \A p, q \in Procs :
    (/\ p # q
     /\ calls[p].pc = "respond" /\ calls[p].continuation /\ ~calls[p].has_more
     /\ calls[q].sid = calls[p].sid) =>
      calls[q].pc \notin {"fetch_edges", "edge", "fetch_node"}

\* the pages of a session with session id sid agree with its run alone
AsAlone(sid) ==
  LET n == Len(pages[sid])
      q == pages[sid][1].query
      solo == SoloRun(NewSessionAt(q[1], q[2], 0), n, budgetLimit)
      busy == \E p \in Procs : InAdvance(calls[p]) /\ calls[p].sid = sid
  IN /\ Len(solo) = n
     /\ \A k \in 1..n :
          /\ pages[sid][k].nodes = solo[k].nodes
          /\ pages[sid][k].edges = Views(solo[k].edges)
          /\ pages[sid][k].has_more = solo[k].has_more
     /\ ~busy =>
          /\ sid \in storedIds <=> solo[n].has_more
          /\ sid \in storedIds =>
               /\ heap[sid].frontier = solo[n].sess.frontier
               /\ heap[sid].visited = solo[n].sess.visited
               /\ heap[sid].yielded_edges = solo[n].sess.yielded_edges

\* C18: under any interleaving of calls on different session ids, the pages
\* returned for a session and its stored state between calls are those of
\* the session run alone.
C18_SessionsIsolated ==
  \A sid \in SessionIds :
    (sid \notin tainted /\ pages[sid] # <<>>) => AsAlone(sid)

\* C18 case: two continuations on different sessions are suspended in the
\* middle of advance at the same time
C18_Witness ==
  /\ calls[1].continuation /\ calls[2].continuation
  /\ calls[1].pc = "fetch_node" /\ calls[2].pc = "fetch_node"
  /\ calls[1].sid # calls[2].sid
  /\ calls[1].sid \notin tainted /\ calls[2].sid \notin tainted

\* C19: a stored session whose expires_at has passed is eventually removed
\* from the store.
C19_SessionsEvicted ==
  \A sid \in SessionIds :
    (sid \in storedIds /\ heap[sid].expires_at < now) ~> (sid \notin storedIds)

\* C20: an initial request without start_node_uuid or with depth outside
\* 0..5 is answered with an argument error at once: no session object is
\* made, no store call is awaited, and sessions, their state and the issued
\* tokens stay as they were.
C20_BadArgsRejected ==
  [][ \A p \in Procs :
        (/\ calls[p].pc = "args"
         /\ \/ calls[p].args[1] = NoUuid
            \/ calls[p].args[2] < 0
            \/ calls[p].args[2] > MAX_DEPTH) =>
          /\ calls'[p].pc = "idle"
          /\ calls'[p].outcome = "INVALID_ARGUMENT"
          /\ storedIds' = storedIds
          /\ heap' = heap
          /\ tokens' = tokens ]_vars

\* C20 case: an argument error was answered while a session with pending
\* frames was stored
C20_Witness ==
  \E p \in Procs :
    /\ calls[p].pc = "idle" /\ calls[p].outcome = "INVALID_ARGUMENT"
    /\ \E sid \in storedIds : heap[sid].frontier # <<>>

\* the error codes of the cursor protocol and of the argument checks
ErrorCodes == {"CURSOR_EXPIRED", "INVALID_CURSOR", "SESSION_NOT_FOUND",
               "QUERY_MISMATCH", "INVALID_ARGUMENT"}

\* C21: a call that ends with a cursor or argument failure returns a
\* response naming the error code; it does not end by raising an exception.
C21_ErrorsReturned ==
  \A p \in Procs :
    (calls[p].pc = "idle" /\ calls[p].outcome \in ErrorCodes) => ~calls[p].raised

\* C22: a token issued at time t expires at t + ttl; issuing it leaves every
\* token issued before as it was; and a token as issued passes verification
\* up to its own exp and is answered CURSOR_EXPIRED after it, whatever other
\* tokens were issued for the same (sid, qh) before or after it.
C22_SlidingTtl ==
  [][ /\ \A t \in tokens' \ tokens : t.payload.exp = now + CURSOR_TTL
      /\ tokens \subseteq tokens'
      /\ \A p \in Procs :
           (calls[p].pc = "verify" /\ calls[p].tok \in tokens) =>
             IF calls[p].tok.payload.exp < now
             THEN calls'[p].outcome = "CURSOR_EXPIRED"
             ELSE calls'[p].outcome \notin {"CURSOR_EXPIRED", "INVALID_CURSOR"} ]_vars

\* C22 case: two tokens were issued for the same (sid, qh) at different
\* times; the older one has been answered CURSOR_EXPIRED while the newer
\* one is still within its own lifetime
C22_Witness ==
  \E p \in Procs, old, new \in tokens :
    /\ old.payload.sid = new.payload.sid /\ old.payload.qh = new.payload.qh
    /\ old.payload.exp < now /\ new.payload.exp >= now
    /\ calls[p].pc = "idle" /\ calls[p].outcome = "CURSOR_EXPIRED"
    /\ calls[p].sid = old.payload.sid

\* C23: a presented token that differs from every issued token, in its
\* payload or in its signature, is answered INVALID_CURSOR.
C23_Unforgeable ==
  [][ \A p \in Procs :
        (calls[p].pc = "verify" /\ calls[p].tok \notin tokens) =>
          calls'[p].outcome = "INVALID_CURSOR" ]_vars

\* ------------------------------------------- claims on frames and errors
\* the frames that exist for node n: those queued in the frontier and the
\* one the running call has popped and is working through
FramesOf(n, s, c) ==
  Cardinality({ k \in 1..Len(s.frontier) : s.frontier[k].node_uuid = n })
  + (IF c.pc = "edge" /\ c.frame.node_uuid = n THEN 1 ELSE 0)

\* C24: at no time do two frames exist for the same node; a frame comes
\* into being for a node only in the step that marks the node visited, and
\* a visited node stays visited: so each node gets at most one frame in the
\* life of the session.
C24_OneFramePerNode ==
  [][ \A n \in Nodes :
        /\ FramesOf(n, sess', call') <= 1
        /\ FramesOf(n, sess', call') > FramesOf(n, sess, call) =>
             (~InSeq(n, sess.visited) /\ InSeq(n, sess'.visited))
        /\ InSeq(n, sess.visited) => InSeq(n, sess'.visited) ]_vars

\* C24 case: a finished traversal of the cycle A -> B -> A at depth 2 in
\* which the edge B -> A was emitted from B's frame
C24_Witness ==
  /\ Done /\ sess.max_depth >= 2
  /\ \E a, b \in 1..Len(dbEdges) :
       /\ dbEdges[a].src = sess.root_uuid /\ dbEdges[a].tgt # sess.root_uuid
       /\ dbEdges[b].src = dbEdges[a].tgt /\ dbEdges[b].tgt = sess.root_uuid
       /\ \E k \in 1..Len(emitted) :
            emitted[k].uuid = dbEdges[b].uuid /\ emitted[k].focus = dbEdges[b].src

\* C25: a node whose fetch returns nothing is terminal: no frame exists for
\* it at any time and no edge is emitted from it.
C25_MissingNodeTerminal ==
  \A n \in dbMissing :
    /\ FramesOf(n, sess, call) = 0
    /\ \A k \in 1..Len(AllEmitted) : AllEmitted[k].focus # n

\* C26: when get_node_by_uuid finds no root, the first page holds the root's
\* error record as its only node, no edge, and has_more = false.
C26_RootNotFound ==
  (call.pc = "respond" /\ ~call.continuation /\ NodeIsNone(sess.root_uuid)) =>
    /\ call.nodes = {sess.root_uuid}
    /\ call.edges = <<>>
    /\ ~call.has_more

\* C27: in a traversal with max_depth = 0 the call goes from the root fetch
\* straight to its response: the main loop is never entered, so no edge
\* query is made; the frontier stays empty; the page is the root node alone
\* with no edge and has_more = false; and no session is saved.
C27_DepthZero ==
  (sess.visited # <<>> /\ sess.max_depth = 0) =>
    /\ call.pc \in {"respond", "idle"}
    /\ sess.frontier = <<>>
    /\ sessions = {}
    /\ AllEmitted = <<>>
    /\ call.pc = "respond" =>
         (call.nodes = {sess.root_uuid} /\ call.edges = <<>> /\ ~call.has_more)
    /\ call.pc = "idle" =>
         (cursor.responded /\ ~cursor.has_more /\ seenNodes = {sess.root_uuid})

\* C27 case: a depth-0 request was answered for a root that has edges to
\* other nodes in the store
C27_Witness ==
  /\ Done /\ sess.max_depth = 0
  /\ \E k \in 1..Len(dbEdges) :
       dbEdges[k].src = sess.root_uuid /\ dbEdges[k].tgt # sess.root_uuid

LegacyNode(n) == [uuid |-> n, error |-> NodeIsNone(n)]

\* format_edge_for_traverse: the edge with the result of its far end nested
\* under `target`
format_edge_for_traverse(e, target_node_data) ==
  [type |-> e.name, source_node_uuid |-> e.src, target_node_uuid |-> e.tgt,
   target |-> target_node_data]

\* traverse_knowledge_graph_impl: the nested result for start_node_uuid;
\* every recursive call gets its own copy of visited_nodes, the store's
\* edges are taken in the order the store returns them
RECURSIVE traverse_knowledge_graph_impl(_, _, _)
traverse_knowledge_graph_impl(start_node_uuid, depth, visited_nodes) ==
  IF start_node_uuid \in visited_nodes
  THEN [node |-> LegacyNode(start_node_uuid), edges |-> <<>>,
        cyclic_reference |-> TRUE]
  ELSE IF NodeIsNone(start_node_uuid) \/ depth = 0
  THEN [node |-> LegacyNode(start_node_uuid), edges |-> <<>>]
  ELSE LET entity_edges == FetchedEdges(start_node_uuid)
       IN [node |-> LegacyNode(start_node_uuid),
           edges |-> [k \in 1..Len(entity_edges) |->
                        format_edge_for_traverse(
                          entity_edges[k],
                          traverse_knowledge_graph_impl(
                            OtherEnd(entity_edges[k], start_node_uuid),
                            depth - 1,
                            visited_nodes \cup {start_node_uuid}))]]

\* the node UUIDs of a nested result
RECURSIVE LegacyUuids(_)
LegacyUuids(r) ==
  {r.node.uuid} \cup UNION { LegacyUuids(r.edges[k].target) : k \in DOMAIN r.edges }

\* how many edges of a nested result, at any level, have target n
RECURSIVE LegacyTargetCount(_, _)
LegacyTargetCount(r, n) ==
  IF r.edges = <<>> THEN 0
  ELSE LET here == r.edges[1]
           rest == [r EXCEPT !.edges = Tail(r.edges)]
       IN (IF here.target_node_uuid = n THEN 1 ELSE 0)
          + LegacyTargetCount(here.target, n) + LegacyTargetCount(rest, n)

\* how many edges of a page have target n
PageTargetCount(es, n) == Cardinality({ k \in 1..Len(es) : es[k].target = n })

\* C29: when the first page of a traversal under the default budget is
\* returned, the result of traverse_knowledge_graph_impl for the same root
\* and depth has the same `start`, the same node UUIDs and the same edge
\* targets (as many edges to each node), and the page says has_more = false.
C29_MatchesLegacy ==
  (/\ call.pc = "respond" /\ ~call.continuation
   /\ budgetLimit = MAX_RESPONSE_TOKENS) =>
    LET legacy_result ==
          traverse_knowledge_graph_impl(sess.root_uuid, sess.max_depth, {})
    IN /\ "start" \in DOMAIN legacy_result
       /\ LegacyUuids(legacy_result) = call.nodes
       /\ \A n \in Nodes :
            LegacyTargetCount(legacy_result, n) = PageTargetCount(call.edges, n)
       /\ ~call.has_more

\* C30: from one page boundary of a session to the next, yielded_edges
\* grows by exactly the edges of the page returned in between, numbered
\* onwards from its old value; so at every boundary it is the number of
\* edges emitted in all pages, and the k-th of them carries order = k.
C30_YieldedEdges ==
  [][ \A p \in Procs :
        (/\ InAdvance(calls[p]) /\ calls[p].continuation
         /\ calls'[p].pc = "idle"
         /\ calls[p].sid \in storedIds') =>
          LET before == calls[p].snap.yielded_edges
              page == IF calls'[p].outcome = "page" THEN calls[p].edges ELSE <<>>
          IN /\ heap'[calls[p].sid].yielded_edges = before + Len(page)
             /\ \A k \in 1..Len(page) : page[k].order = before + k - 1 ]_vars

\* ------------------------------------- cancelled calls on a graph with a cycle
\* the triangle 1 - 2 - 3 - 1
CancelStores ==
  { <<[uuid |-> 1, src |-> 1, tgt |-> 2, name |-> 1],
      [uuid |-> 2, src |-> 1, tgt |-> 3, name |-> 1],
      [uuid |-> 3, src |-> 2, tgt |-> 3, name |-> 1]>> }

\* a budget under which the first page holds the root with one edge and
\* its target
CancelLimits == {150}

InitCancel ==
  /\ dbEdges \in CancelStores
  /\ dbMissing = {} /\ dbFailing = {}
  /\ budgetLimit \in CancelLimits
  /\ sess = NoSession /\ sessions = {} /\ call = IdleCall /\ cursor = NoCursor
  /\ emitted = <<>> /\ seenNodes = {} /\ resume = NoFrame
  /\ ordIn1 = <<>> /\ ordIn2 = <<>> /\ ordOut1 = <<>> /\ ordOut2 = <<>>
  /\ ProtoIdle

\* the calls of SpecSeq, one at a time and open to cancellation, on the
\* triangle
SpecCancel == InitCancel /\ [][NextSeq]_vars

\* hop distance from node a to node b, edges taken as undirected (MaxNodes
\* when b cannot be reached)
Dist(a, b) ==
  IF b \notin ReachWithin({a}, MaxNodes) THEN MaxNodes
  ELSE CHOOSE d \in 0..MaxNodes :
         /\ b \in ReachWithin({a}, d)
         /\ d = 0 \/ b \notin ReachWithin({a}, d - 1)

\* C31: the depth of every edge of a page is 1 plus the hop distance from
\* the root of the session to the focus node whose frame emitted it, and
\* every frame of a stored session has
\* depth_remaining = max_depth - (distance from the root to its node).
C31_DepthIsDistance ==
  /\ \A p \in Procs :
       InAdvance(calls[p]) =>
         \A k \in 1..Len(calls[p].edges) :
           calls[p].edges[k].depth =
             1 + Dist(heap[calls[p].sid].root_uuid, calls[p].edges[k].focus)
  /\ \A sid \in storedIds :
       \A k \in 1..Len(heap[sid].frontier) :
         heap[sid].frontier[k].depth_remaining =
           heap[sid].max_depth
             - Dist(heap[sid].root_uuid, heap[sid].frontier[k].node_uuid)

\* the key the ordering mode `uuid` is specified to sort by, for an edge of
\* focus node n: relation type, then the UUID of the other endpoint
OtherEndKey(e, n) == <<e.name, OtherEnd(e, n)>>

\* C32: in ordering mode `uuid` the edges of a focus node come out sorted by
\* (relation type, UUID of the endpoint other than the focus node), whether
\* the focus node is their source or their target.
C32_SortedByOtherEnd ==
  \A a, b \in 1..Len(ordOut1) :
    a < b => KeyLE(OtherEndKey(ordOut1[a], OrderFocus),
                   OtherEndKey(ordOut1[b], OrderFocus))

\* C33: when advance returns, has_more = false goes with an empty frontier,
\* and has_more = true with a frontier whose head is the frame the budget
\* interrupted, set to resume at the rejected edge.
C33_HasMoreIffFrontier ==
  call.pc = "respond" =>
    IF call.has_more
    THEN /\ sess.frontier # <<>>
         /\ Head(sess.frontier) =
              Frame(call.frame.node_uuid, call.frame.depth_remaining, call.i)
    ELSE sess.frontier = <<>>

\* C33 case: a continuation page cut in the middle of a frame while another
\* frame waits behind it
C33_Witness ==
  /\ call.pc = "respond" /\ call.has_more /\ call.continuation
  /\ Len(sess.frontier) >= 2
  /\ call.i > 0

\* C34: sess.visited never holds the same node UUID twice.
C34_VisitedDistinct ==
  \A a, b \in 1..Len(sess.visited) : a # b => sess.visited[a] # sess.visited[b]

\* C34 case: a finished traversal of several pages at depth 2 over two
\* parallel edges or a two-edge cycle between the root and another node, in
\* which both edges were emitted from both ends
C34_Witness ==
  /\ Done /\ call.continuation
  /\ sess.max_depth = 2
  /\ Len(dbEdges) = 2
  /\ \A k \in 1..2 :
       /\ sess.root_uuid \in {dbEdges[k].src, dbEdges[k].tgt}
       /\ dbEdges[k].src # dbEdges[k].tgt
       /\ {dbEdges[k].src, dbEdges[k].tgt} = {dbEdges[1].src, dbEdges[1].tgt}
  /\ Len(emitted) = 4
  /\ Len(sess.visited) = 2

\* --------------------------------------------- a store whose edge fetch fails
\* the node whose edge fetch raises
FailingNodes == {2}

InitFail ==
  /\ dbEdges \in Stores
  /\ dbMissing = {}
  /\ dbFailing = FailingNodes
  /\ budgetLimit \in Limits
  /\ sess = NoSession
  /\ sessions = {}
  /\ call = IdleCall
  /\ cursor = NoCursor
  /\ emitted = <<>>
  /\ seenNodes = {}
  /\ resume = NoFrame
  /\ ordIn1 = <<>> /\ ordIn2 = <<>> /\ ordOut1 = <<>> /\ ordOut2 = <<>>
  /\ ProtoIdle

\* the traversal of Spec over a store that raises on the edge fetch of one
\* node
SpecFail == InitFail /\ [][Next]_vars

\* C35: when the edge fetch for the node of the frame at the head of the
\* frontier raises, the frame is dropped, nothing is emitted or marked, and
\* the same call goes on with the main loop over the remaining frames; no
\* edge is ever emitted from the frame of such a node.
C35_FetchErrorDropsFrame ==
  [][ /\ (/\ call.pc = "loop" /\ sess.frontier # <<>>
          /\ Head(sess.frontier).node_uuid \in dbFailing) =>
            /\ call'.pc = "loop"
            /\ call'.edges = call.edges /\ call'.nodes = call.nodes
            /\ sess' = [sess EXCEPT !.frontier = Tail(sess.frontier)]
      /\ \A k \in 1..Len(call'.edges) : call'.edges[k].focus \notin dbFailing
    ]_vars

\* C35 case: one call in which the frame of the failing node was dropped and
\* the frame queued behind it still emitted its edge
C35_Witness ==
  /\ Done /\ ~call.continuation
  /\ sess.max_depth = 2
  /\ \E n \in dbFailing :
       /\ n # sess.root_uuid
       /\ InSeq(n, sess.visited)
       /\ Len(Incident(n)) >= 1
  /\ \E k \in 1..Len(emitted), a, b \in 1..Len(sess.visited) :
       /\ emitted[k].depth = 2
       /\ a < b
       /\ sess.visited[a] \in dbFailing
       /\ sess.visited[b] = emitted[k].focus

\* every edge of the store, with the record of either of its endpoints,
\* fits in the budget on a page that holds nothing else
EveryEdgeFitsAlone ==
  \A k \in 1..Len(dbEdges) :
    \A t \in {dbEdges[k].src, dbEdges[k].tgt} :
      EstimateTokens(TRUE, {t}, 1) <= budgetLimit

\* C36: when every edge with its target node fits on an otherwise empty
\* page, a continuation that returns has_more = true has emitted at least
\* one edge, and yielded_edges has grown beyond the edges of the earlier
\* pages.
C36_ContinuationProgress ==
  (/\ EveryEdgeFitsAlone
   /\ call.pc = "respond" /\ call.continuation /\ call.has_more) =>
    /\ Len(call.edges) >= 1
    /\ sess.yielded_edges > Len(emitted)

\* C36 case: under a budget that holds one edge per page, the second
\* continuation page in a row that ends with has_more = true
C36_Witness ==
  /\ EveryEdgeFitsAlone
  /\ budgetLimit < MAX_RESPONSE_TOKENS
  /\ call.pc = "respond" /\ call.continuation /\ call.has_more
  /\ Len(call.edges) = 1
  /\ Len(emitted) >= 1

\* the elements of a sequence
Range(q) == { q[k] : k \in 1..Len(q) }

\* C37: from one page boundary of a session to the next, the nodes that
\* entered visited are exactly the keys of `nodes` of the page returned in
\* between, none of them visited before; so every visited node has its
\* record in exactly one page and the pages' key sets are disjoint.
C37_NodesOncePerSession ==
  [][ \A p \in Procs :
        (/\ InAdvance(calls[p]) /\ calls[p].continuation
         /\ calls'[p].pc = "idle"
         /\ calls[p].sid \in storedIds') =>
          LET before == Range(calls[p].snap.visited)
              page == IF calls'[p].outcome = "page" THEN calls[p].nodes ELSE {}
          IN /\ Range(heap'[calls[p].sid].visited) = before \cup page
             /\ page \cap before = {} ]_vars

\* C38: whichever of the session's cursors was presented, the page a
\* continuation returns depends only on how many calls of the session have
\* returned before it: the k-th page returned for a session is the k-th
\* page of its traversal run alone.
C38_ReplayAdvances ==
  [][ \A p \in Procs :
        (/\ calls[p].pc = "respond" /\ calls[p].continuation
         /\ calls'[p].outcome = "page"
         /\ pages[calls[p].sid] # <<>>) =>
          LET sid == calls[p].sid
              k == Len(pages[sid]) + 1
              solo == SoloRun(NewSessionAt(heap[sid].root_uuid,
                                           heap[sid].max_depth, 0),
                              k, budgetLimit)
          IN /\ Len(solo) = k
             /\ solo[k].nodes = calls[p].nodes
             /\ Views(solo[k].edges) = Views(calls[p].edges)
             /\ solo[k].has_more = calls[p].has_more ]_vars

\* the last page returned for session id sid came from a continuation and
\* said has_more = false
Completed(sid) ==
  /\ Len(pages[sid]) >= 2
  /\ ~pages[sid][Len(pages[sid])].has_more

\* C39: once a continuation has returned has_more = false, no session is
\* stored or made under its session id again, and every continuation that
\* presents an issued, correctly signed and unexpired cursor of the session
\* is answered SESSION_NOT_FOUND.
C39_CompletedSessionGone ==
  [][ \A sid \in SessionIds :
        Completed(sid) =>
          /\ sid \notin storedIds'
          /\ heap'[sid] = NoSessionAt
          /\ \A p \in Procs :
               (/\ calls[p].pc = "verify" /\ calls'[p].pc # "verify"
                /\ calls[p].tok \in tokens
                /\ calls[p].tok.payload.sid = sid
                /\ VerifyToken(calls[p].tok, now) = "ok") =>
                 /\ calls'[p].outcome = "SESSION_NOT_FOUND"
                 /\ calls'[p].raised ]_vars

\* C39 case: a continuation was refused with SESSION_NOT_FOUND for a session
\* that a continuation had finished, while two cursors issued for the
\* session are still unexpired and another session has been created since
C39_Witness ==
  \E p \in Procs :
    /\ calls[p].pc = "idle" /\ calls[p].outcome = "SESSION_NOT_FOUND"
    /\ Completed(calls[p].sid)
    /\ \E t, u \in tokens :
         /\ t # u
         /\ t.payload.sid = calls[p].sid /\ u.payload.sid = calls[p].sid
         /\ VerifyToken(t, now) = "ok" /\ VerifyToken(u, now) = "ok"
    /\ \E o \in SessionIds \ {calls[p].sid} : pages[o] # <<>>

\* the query parameters of a session
QueryFields(s) ==
  <<s.root_uuid, s.max_depth, s.strategy, s.edge_ordering, s.query_hash>>

\* C40: with tokens that only the wrapper issues, every token of a stored
\* session carries the session's query_hash, no step changes root_uuid,
\* max_depth, strategy, edge_ordering or query_hash of a session, and no
\* call is answered QUERY_MISMATCH.
C40_NoQueryMismatch ==
  [][ /\ \A t \in tokens' :
           t.payload.sid \in storedIds' =>
             t.payload.qh = heap'[t.payload.sid].query_hash
      /\ \A sid \in SessionIds :
           (heap[sid] # NoSessionAt /\ heap'[sid] # NoSessionAt) =>
             QueryFields(heap'[sid]) = QueryFields(heap[sid])
      /\ \A p \in Procs : calls'[p].outcome # "QUERY_MISMATCH" ]_vars

\* C40 case: a continuation that came with other start_node_uuid and depth
\* arguments than the session's, and with the cursor of a page that a
\* continuation had returned, is about to return a page with edges
C40_Witness ==
  \E p \in Procs :
    /\ calls[p].pc = "respond" /\ calls[p].continuation
    /\ Len(pages[calls[p].sid]) >= 2
    /\ Len(calls[p].edges) >= 1
    /\ calls[p].tok \in tokens
    /\ calls[p].tok.payload.qh = heap[calls[p].sid].query_hash
    /\ QueryHash(calls[p].args[1], calls[p].args[2]) # heap[calls[p].sid].query_hash
    /\ calls[p].sid \in storedIds
    /\ heap[calls[p].sid].yielded_edges >= 1

====
